---- MODULE Spec2Model ----
(***************************************************************************)
(* hny-gulp-htmlcs: the gulp plugin of src/src/index.js as a state machine. *)
(* One pipeline invocation (one call of gulpHtmlcs): the per-file          *)
(* transform onFile, the flush callback onStreamEnd with its promise chain *)
(* and its two process.nextTick callbacks, and the result normalizer       *)
(* formatResult. A second call of gulpHtmlcs is kept as a saved closure    *)
(* that the running handlers are switched to.                              *)
(***************************************************************************)
EXTENDS Integers, Sequences, FiniteSets, TLC

(* ------------------------------ bounds -------------------------------- *)

\* Files the upstream stage delivers before it ends.
MaxFiles == 2

\* Issue records the lint engine returns over the whole stream.
MaxRecords == 2

\* Reporter configurations in options.reporters.
MaxReporters == 2

(* --------------------------- input domains ---------------------------- *)

\* Rule names the lint engine reports.
Rules == {"r1", "r2"}

\* IssueRecord.type of the lint engine.
Types == {"ERROR", "WARNING"}

\* Values of an errorLevel entry's severity field ("" is a falsy string).
OverrideSeverities == {"error", "warning", ""}

\* The records the lint engine can return: line, column, message and code
\* are carried along verbatim and are folded into one position field.
IssueRecords == [rule : Rules, type : Types, line : {1}]

RECURSIVE SeqsUpTo(_, _)
SeqsUpTo(S, n) ==
    IF n = 0 THEN {<<>>}
    ELSE LET shorter == SeqsUpTo(S, n - 1)
         IN  shorter \cup {Append(s, x) : s \in {t \in shorter : Len(t) = n - 1}, x \in S}

\* An errorLevel entry is an object that may or may not have a severity field.
Entries ==
    {[k \in {} |-> ""]} \cup {[k \in {"severity"} |-> s] : s \in OverrideSeverities}

\* options.errorLevel: a mapping from some rule names to entries.
ErrorLevels == UNION {[D -> Entries] : D \in SUBSET Rules}

\* The inputs of the streaming runs: the engine reports one rule there, and
\* errorLevel names it or not, with a severity or without.
StreamRecords == {r \in IssueRecords : r.rule = "r1"}
StreamErrorLevels ==
    {e \in ErrorLevels :
        /\ DOMAIN e \subseteq {"r1"}
        /\ \A r \in DOMAIN e : \A k \in DOMAIN e[r] : e[r][k] = "error"}

(* ------------------------------- state -------------------------------- *)

VARIABLES
    pluginOptions,    \* options with defaults applied
    arrived,          \* files the upstream stage has written, in order
    downstream,       \* files pushed to the next stage, in order
    completions,      \* the per-file done(...) calls, in order
    configLog,        \* per written file, how reading configFile went
    lintPromiseList,  \* the pending results list
    emitted,          \* errors emitted on the stream's error channel
    pc,               \* position of the stream / of onStreamEnd's chain
    reporterCalls,    \* reporter invocations: who, with which array
    reporterState,    \* each reporter's returned promise
    chainError,       \* the rejection reason carried to .catch
    streamDone,       \* calls of the stream completion callback
    self,             \* which call of gulpHtmlcs the variables above belong to
    peer              \* the closure of the other call of gulpHtmlcs, if any

\* What one call of gulpHtmlcs closes over, lines 30-59.
closure == <<pluginOptions, arrived, downstream, completions, configLog,
             lintPromiseList, emitted, pc, reporterCalls, reporterState,
             chainError, streamDone>>

vars == <<closure, self, peer>>

pluginName == "gulp-htmlcs"

\* The "no file" argument of done().
NoFile == [path |-> 0, kind |-> "none", issues |-> <<>>]

\* The configured reporters, by position in options.reporters.
reporters == 1 .. pluginOptions.reporters

(* ------------------------- result normalizer -------------------------- *)

\* String.prototype.toLowerCase on the engine's type names.
toLowerCase(s) ==
    CASE s = "ERROR" -> "error"
      [] s = "WARNING" -> "warning"
      [] OTHER -> s

\* JavaScript truthiness of a string.
Truthy(s) == s # ""

\* Mutant of severityOf: an entry without a severity falls back to the
\* native type instead of 'warning'.
severityNativeFallback(errorLevel, item) ==
    IF item.rule \in DOMAIN errorLevel
          /\ "severity" \in DOMAIN errorLevel[item.rule]
          /\ Truthy(errorLevel[item.rule]["severity"])
    THEN errorLevel[item.rule]["severity"]
    ELSE toLowerCase(item.type)

\* Lines 77-80: the severity of one record under errorLevel.
severityOf(errorLevel, item) ==
    IF item.rule \in DOMAIN errorLevel
    THEN LET entry == errorLevel[item.rule]
         IN  IF "severity" \in DOMAIN entry /\ Truthy(entry["severity"])
             THEN entry["severity"]
             ELSE "warning"
    ELSE toLowerCase(item.type)

\* Mutant of erroredOf: errored assigned from each record, so the last wins.
erroredLast(result) == result # <<>> /\ result[Len(result)].type = "ERROR"

\* Lines 72-76: errored is set by any record of type ERROR.
erroredOf(result) == \E i \in 1 .. Len(result) : result[i].type = "ERROR"

\* Lines 73-89: one warning per record, in the records' order.
warningsOf(errorLevel, result) ==
    [i \in 1 .. Len(result) |->
        [line |-> result[i].line,
         rule |-> result[i].rule,
         severity |-> severityOf(errorLevel, result[i])]]

\* Mutant of formatResult: errored is taken from the resolved severities.
formatResultErroredBySeverity(errorLevel, result, source) ==
    [results |-> <<[source |-> source,
                    errored |-> \E i \in 1 .. Len(result) :
                                   severityOf(errorLevel, result[i]) = "error",
                    warnings |-> warningsOf(errorLevel, result),
                    deprecations |-> <<>>,
                    invalidOptionWarnings |-> <<>>,
                    ignored |-> FALSE]>>]

\* Lines 71-99: the envelope of one file's records.
formatResult(errorLevel, result, source) ==
    [results |-> <<[source |-> source,
                    errored |-> erroredOf(result),
                    warnings |-> warningsOf(errorLevel, result),
                    deprecations |-> <<>>,
                    invalidOptionWarnings |-> <<>>,
                    ignored |-> FALSE]>>]

(* ------------------------------ errors -------------------------------- *)

\* new PluginError(pluginName, message): showStack defaults to false.
PluginError(message, showStack, from) ==
    [plugin |-> pluginName, message |-> message, showStack |-> showStack,
     from |-> from]

(* ------------------------------- Init --------------------------------- *)

\* The state gulpHtmlcs(options) returns its stream in, lines 30-70.
gulpHtmlcs(options) ==
    /\ pluginOptions = options
    /\ arrived = <<>>
    /\ downstream = <<>>
    /\ completions = <<>>
    /\ configLog = <<>>
    /\ lintPromiseList = <<>>
    /\ emitted = <<>>
    /\ pc = "stream"
    /\ reporterCalls = <<>>
    /\ reporterState = [r \in 1 .. pluginOptions.reporters |-> "idle"]
    /\ chainError = 0
    /\ streamDone = 0

\* gulpHtmlcs is called once in the process.
Alone == self = 1 /\ peer = <<>>

Init ==
    \E options \in [failAfterError : BOOLEAN,
                    debug : BOOLEAN,
                    errorLevel : StreamErrorLevels,
                    configFile : BOOLEAN,
                    reporters : 0 .. MaxReporters] :
        gulpHtmlcs(options) /\ Alone

(* --------------------------- file processor --------------------------- *)

\* Records the lint engine has returned so far over the whole stream.
RECURSIVE RecordsIn(_)
RecordsIn(files) ==
    IF files = <<>> THEN 0
    ELSE Len(Head(files).issues) + RecordsIn(Tail(files))

\* The files the upstream stage can write next: a null file, a stream file,
\* or a buffered file whose contents the lint engine answers with `issues`.
NextFiles ==
    LET path == Len(arrived) + 1
        room == MaxRecords - RecordsIn(arrived)
    IN  {[path |-> path, kind |-> "null", issues |-> <<>>],
         [path |-> path, kind |-> "stream", issues |-> <<>>]}
        \cup {[path |-> path, kind |-> "buffer", issues |-> i] :
                 i \in SeqsUpTo(StreamRecords, room)}

isNull(file) == file.kind = "null"
isStream(file) == file.kind = "stream"

\* htmlcs.hint on the file's contents, with or without a parsed config.
hint(file) == file.issues

\* Mutant of onFileErrors: the config load error always shows its stack.
onFileErrorsShowStack(file, configFails) ==
    IF isNull(file) THEN <<>>
    ELSE IF isStream(file)
    THEN <<PluginError("Streaming is not supported", FALSE, 0)>>
    ELSE IF pluginOptions.configFile /\ configFails
    THEN <<PluginError("config load failed", TRUE, 0)>>
    ELSE <<>>

\* Mutant of onFileErrors: a failed config load is remembered, and later
\* files neither read configFile again nor emit an error for it.
onFileErrorsCachedFailure(file, configFails) ==
    IF isNull(file) THEN <<>>
    ELSE IF isStream(file)
    THEN <<PluginError("Streaming is not supported", FALSE, 0)>>
    ELSE IF pluginOptions.configFile /\ configFails
            /\ \A i \in DOMAIN emitted : emitted[i].message # "config load failed"
    THEN <<PluginError("config load failed", pluginOptions.debug, 0)>>
    ELSE <<>>

\* Lines 126-127 and 133-143: what onFile emits on the error channel.
onFileErrors(file, configFails) ==
    IF isNull(file) THEN <<>>
    ELSE IF isStream(file)
    THEN <<PluginError("Streaming is not supported", FALSE, 0)>>
    ELSE IF pluginOptions.configFile /\ configFails
    THEN <<PluginError("config load failed", pluginOptions.debug, 0)>>
    ELSE <<>>

\* Mutant of onFileResults: the catch block returns, so nothing is pushed
\* for a file whose config load failed.
onFileResultsAbort(file, configFails) ==
    IF isNull(file) \/ isStream(file) THEN <<>>
    ELSE IF pluginOptions.configFile /\ configFails THEN <<>>
    ELSE <<formatResult(pluginOptions.errorLevel, file.issues, file.path)>>

\* Lines 121-146: what onFile pushes to lintPromiseList. A failed config
\* load leaves hint at htmlcs.hint, and the push at line 146 still runs.
onFileResults(file, configFails) ==
    IF isNull(file) \/ isStream(file) THEN <<>>
    ELSE <<formatResult(pluginOptions.errorLevel, hint(file), file.path)>>

\* Mutant of onFileDone: a null file is completed with no file.
onFileDoneDropsNull(file, configFails) ==
    IF isNull(file) \/ isStream(file) THEN NoFile ELSE file

\* Mutant of onFileDone: a stream file is completed with the file.
onFileDoneForwardsStream(file, configFails) == file

\* Lines 122, 128, 148: the argument of the per-file done callback.
onFileDone(file, configFails) ==
    IF isNull(file) THEN file
    ELSE IF isStream(file) THEN NoFile
    ELSE file

\* Mutant of doneCalls: the stream branch does not return after done(), so
\* the file runs on to line 148 and is completed a second time.
doneCallsNoReturn(file, configFails) ==
    IF isStream(file) THEN <<NoFile, file>>
    ELSE <<onFileDone(file, configFails)>>

\* Lines 122-123, 128-129 and 148: the calls of done made for one file. Each
\* branch calls it once, and the first two return right after.
doneCalls(file, configFails) == <<onFileDone(file, configFails)>>

\* Lines 133-135: whether configFile is read for this file, and how it goes.
configRead(file, configFails) ==
    IF isNull(file) \/ isStream(file) \/ ~pluginOptions.configFile THEN "none"
    ELSE IF configFails THEN "failed"
    ELSE "ok"

\* Mutant of Pushed: the file is pushed and then handed to done as well.
PushedTwice(arg) == IF arg = NoFile THEN <<>> ELSE <<arg, arg>>

\* through2's callback: done(null, file) pushes file to the next stage.
Pushed(arg) == IF arg = NoFile THEN <<>> ELSE <<arg>>

\* Mutant of push: the entries are put in front, as Array.prototype.unshift.
unshift(list, entries) == entries \o list

\* Line 146: Array.prototype.push on the pending results list.
push(list, entries) == list \o entries

\* The transform callback, lines 119-149, run on one written file.
onFile(file, configFails) ==
    /\ pc = "stream"
    /\ Len(arrived) < MaxFiles
    /\ arrived' = Append(arrived, file)
    /\ emitted' = emitted \o onFileErrors(file, configFails)
    /\ configLog' = Append(configLog, configRead(file, configFails))
    /\ lintPromiseList' = push(lintPromiseList, onFileResults(file, configFails))
    /\ completions' = completions \o doneCalls(file, configFails)
    /\ downstream' = downstream \o Pushed(onFileDone(file, configFails))
    /\ UNCHANGED <<self, peer, pluginOptions, pc, reporterCalls, reporterState,
                   chainError, streamDone>>

(* ------------------------ completion aggregator ----------------------- *)

\* Mutant of flatten: the reducer returns res.results instead of
\* accumulating, so only the last envelope survives.
flattenLast(lintResults) ==
    IF lintResults = <<>> THEN <<>>
    ELSE lintResults[Len(lintResults)].results

\* Mutant of flatten: the reducer prepends, res.results.concat(accumulated).
RECURSIVE flattenPrepending(_)
flattenPrepending(lintResults) ==
    IF lintResults = <<>> THEN <<>>
    ELSE flattenPrepending(Tail(lintResults)) \o Head(lintResults).results

\* Lines 157-158: the per-file result objects of all envelopes, in order.
RECURSIVE flatten(_)
flatten(lintResults) ==
    IF lintResults = <<>> THEN <<>>
    ELSE Head(lintResults).results \o flatten(Tail(lintResults))

\* Lines 169-171.
isErrorSeverity(warning) == warning.severity = "error"

\* Lines 184-187: the warnings of error severity over all envelopes.
RECURSIVE errorCountOf(_)
errorCountOf(lintResults) ==
    IF lintResults = <<>> THEN 0
    ELSE Len(SelectSeq(Head(lintResults).results[1].warnings, isErrorSeverity))
         + errorCountOf(Tail(lintResults))

\* Mutant of errorMessage: no singular form.
errorMessagePlural(errorCount) ==
    "Failed with " \o ToString(errorCount) \o " errors"

\* Line 189.
errorMessage(errorCount) ==
    "Failed with " \o ToString(errorCount) \o " "
        \o (IF errorCount = 1 THEN "error" ELSE "errors")

\* Mutant of thresholdErrors: failAfterError is not consulted.
thresholdErrorsAlways(errorCount) ==
    IF errorCount > 0
    THEN <<PluginError(errorMessage(errorCount), FALSE, 0)>>
    ELSE <<>>

\* Lines 188-191: what the deciding tick emits.
thresholdErrors(errorCount) ==
    IF pluginOptions.failAfterError /\ errorCount > 0
    THEN <<PluginError(errorMessage(errorCount), FALSE, 0)>>
    ELSE <<>>

\* Mutant of failureErrors: the failure tick decides pass/fail as well.
failureErrorsThenDecide(error) ==
    <<PluginError("reporter failed", pluginOptions.debug, error)>>
        \o (IF pluginOptions.failAfterError
            THEN <<PluginError("Failed", FALSE, 0)>>
            ELSE <<>>)

\* Lines 197-199: what the failure tick emits.
failureErrors(error) ==
    <<PluginError("reporter failed", pluginOptions.debug, error)>>

\* The flush callback, lines 178-181: the chain is built on
\* Promise.all(lintPromiseList), which settles in a later job.
onStreamEnd ==
    /\ pc = "stream"
    /\ pc' = "flush"
    /\ UNCHANGED <<self, peer, pluginOptions, arrived, downstream, completions, configLog,
                   lintPromiseList, emitted, reporterCalls, reporterState,
                   chainError, streamDone>>

\* What calling a reporter does (reporter-factory): it throws, or it returns
\* a promise for its output tasks.
ReporterBehaviours == {"throws", "returns"}

\* How the promise a reporter returned settles.
ReporterSettlements == {"resolved", "rejected"}

\* The first reporter that throws on invocation, 0 if none does.
FirstThrower(behaviour) ==
    IF \E r \in reporters : behaviour[r] = "throws"
    THEN CHOOSE r \in reporters :
             /\ behaviour[r] = "throws"
             /\ \A q \in 1 .. r - 1 : behaviour[q] # "throws"
    ELSE 0

\* Line 160: reporters.map calls the reporters in order and stops at a throw.
invoked(behaviour) ==
    IF FirstThrower(behaviour) = 0 THEN pluginOptions.reporters
    ELSE FirstThrower(behaviour)

\* Lines 156-162, run as the .then of Promise.all(lintPromiseList). The
\* reactions chained behind it (lines 161, 182 and 195) run in the same drain
\* of the job queue: a throw here leaves the failure tick scheduled, and with
\* no reporter Promise.all([]) leaves the deciding tick scheduled.
passLintResultsThroughReporters(behaviour) ==
    /\ pc = "flush"
    /\ LET warnings == flatten(lintPromiseList)
           first == FirstThrower(behaviour)
       IN  /\ reporterCalls' =
                  [r \in 1 .. invoked(behaviour) |-> [reporter |-> r, results |-> warnings]]
           /\ reporterState' =
                  [r \in reporters |->
                      IF r > invoked(behaviour) THEN "idle"
                      ELSE IF r = first THEN "threw"
                      ELSE "pending"]
           /\ chainError' = first
           /\ pc' = IF first # 0 THEN "tickFail"
                    ELSE IF pluginOptions.reporters = 0 THEN "tickDecide"
                    ELSE "reporting"
    /\ UNCHANGED <<self, peer, pluginOptions, arrived, downstream, completions, configLog,
                   lintPromiseList, emitted, streamDone>>

\* Mutant of reporterSettles: the promises are raced, so the first reporter
\* that resolves lets the chain go on to the deciding tick.
reporterSettlesRace(r, settlement) ==
    /\ pc = "reporting"
    /\ reporterState[r] = "pending"
    /\ reporterState' = [reporterState EXCEPT ![r] = settlement]
    /\ IF settlement = "rejected"
       THEN pc' = "tickFail" /\ chainError' = r
       ELSE pc' = "tickDecide" /\ UNCHANGED chainError
    /\ UNCHANGED <<self, peer, pluginOptions, arrived, downstream,
                   completions, configLog, lintPromiseList, emitted,
                   reporterCalls, streamDone>>

\* A reporter's promise settles while Promise.all (line 160) is pending:
\* Promise.all rejects on the first rejection and resolves when every promise
\* has resolved, and the reaction of line 195, or of lines 161 and 182,
\* schedules its tick. (A settlement after Promise.all has settled reaches no
\* handler of the plugin.)
reporterSettles(r, settlement) ==
    /\ pc = "reporting"
    /\ reporterState[r] = "pending"
    /\ reporterState' = [reporterState EXCEPT ![r] = settlement]
    /\ IF settlement = "rejected"
       THEN pc' = "tickFail" /\ chainError' = r
       ELSE IF \A q \in reporters : reporterState'[q] = "resolved"
       THEN pc' = "tickDecide" /\ UNCHANGED chainError
       ELSE UNCHANGED <<pc, chainError>>
    /\ UNCHANGED <<self, peer, pluginOptions, arrived, downstream, completions, configLog,
                   lintPromiseList, emitted, reporterCalls, streamDone>>

\* Lines 183-193: the deciding tick.
decideTick ==
    /\ pc = "tickDecide"
    /\ emitted' = emitted \o thresholdErrors(errorCountOf(lintPromiseList))
    /\ streamDone' = streamDone + 1
    /\ pc' = "done"
    /\ UNCHANGED <<self, peer, pluginOptions, arrived, downstream, completions, configLog,
                   lintPromiseList, reporterCalls, reporterState, chainError>>

\* Mutant of failTick: the failure tick emits the error and forgets done().
failTickNoDone ==
    /\ pc = "tickFail"
    /\ emitted' = emitted \o <<PluginError("reporter failed", pluginOptions.debug, chainError)>>
    /\ pc' = "done"
    /\ UNCHANGED <<self, peer, pluginOptions, arrived, downstream, completions, configLog,
                   lintPromiseList, reporterCalls, reporterState, chainError,
                   streamDone>>

\* Lines 196-201: the failure tick.
failTick ==
    /\ pc = "tickFail"
    /\ emitted' = emitted \o failureErrors(chainError)
    /\ streamDone' = streamDone + 1
    /\ pc' = "done"
    /\ UNCHANGED <<self, peer, pluginOptions, arrived, downstream, completions, configLog,
                   lintPromiseList, reporterCalls, reporterState, chainError>>

(* --------------------------- specification ---------------------------- *)

\* The jobs of the flush callback's promise chain and the reporters.
Aggregate ==
    \/ onStreamEnd
    \/ \E behaviour \in [reporters -> ReporterBehaviours] :
           passLintResultsThroughReporters(behaviour)
    \/ \E r \in reporters, settlement \in ReporterSettlements :
           reporterSettles(r, settlement)
    \/ decideTick
    \/ failTick

Next ==
    \/ \E file \in NextFiles, configFails \in BOOLEAN : onFile(file, configFails)
    \/ Aggregate

Spec == Init /\ [][Next]_vars

\* The normalizer and the decision: buffered files whose contents the lint
\* engine answers with any lists of records, under any errorLevel, with no
\* reporter configured.
FormatInit ==
    \E options \in [failAfterError : {TRUE},
                    debug : {FALSE},
                    errorLevel : ErrorLevels,
                    configFile : {FALSE},
                    reporters : {0}] : gulpHtmlcs(options) /\ Alone

FormatNext ==
    \/ \E issues \in SeqsUpTo(IssueRecords, MaxRecords - RecordsIn(arrived)) :
           onFile([path |-> Len(arrived) + 1, kind |-> "buffer", issues |-> issues],
                  FALSE)
    \/ onStreamEnd
    \/ \E behaviour \in [reporters -> ReporterBehaviours] :
           passLintResultsThroughReporters(behaviour)
    \/ decideTick

FormatSpec == FormatInit /\ [][FormatNext]_vars

\* The runs the completion of the stream is followed on: the same stream,
\* with files the lint engine finds nothing or a single ERROR in.
PlainFiles ==
    {f \in NextFiles : \A i \in DOMAIN f.issues : i = 1 /\ f.issues[i].type = "ERROR"}

FairNext ==
    \/ \E file \in PlainFiles, configFails \in BOOLEAN : onFile(file, configFails)
    \/ Aggregate

\* The job queue runs every scheduled job, and a reporter's promise settles.
FairSpec ==
    /\ Init /\ [][FairNext]_vars
    /\ WF_vars(\E behaviour \in [reporters -> ReporterBehaviours] :
                   passLintResultsThroughReporters(behaviour))
    /\ WF_vars(\E r \in reporters, settlement \in ReporterSettlements :
                   reporterSettles(r, settlement))
    /\ WF_vars(decideTick)
    /\ WF_vars(failTick)

(* -------------------------- two invocations --------------------------- *)

\* The closure a call gulpHtmlcs(options) creates, in the order of `closure`.
closureOf(options) ==
    <<options, <<>>, <<>>, <<>>, <<>>, <<>>, <<>>, "stream", <<>>,
      [r \in 1 .. options.reporters |-> "idle"], 0, 0>>

\* Mutant of Switch: lintPromiseList is declared at module scope, so both
\* calls of gulpHtmlcs push to and read from the same list.
SwitchSharedList ==
    /\ peer # <<>>
    /\ pluginOptions' = peer[1]
    /\ arrived' = peer[2]
    /\ downstream' = peer[3]
    /\ completions' = peer[4]
    /\ configLog' = peer[5]
    /\ lintPromiseList' = lintPromiseList
    /\ emitted' = peer[7]
    /\ pc' = peer[8]
    /\ reporterCalls' = peer[9]
    /\ reporterState' = peer[10]
    /\ chainError' = peer[11]
    /\ streamDone' = peer[12]
    /\ self' = 3 - self
    /\ peer' = closure

\* The event loop turns from a handler of one stream to a handler of the
\* other: every name declared inside gulpHtmlcs (lines 30-205) now refers
\* to the other call's closure.
Switch ==
    /\ peer # <<>>
    /\ pluginOptions' = peer[1]
    /\ arrived' = peer[2]
    /\ downstream' = peer[3]
    /\ completions' = peer[4]
    /\ configLog' = peer[5]
    /\ lintPromiseList' = peer[6]
    /\ emitted' = peer[7]
    /\ pc' = peer[8]
    /\ reporterCalls' = peer[9]
    /\ reporterState' = peer[10]
    /\ chainError' = peer[11]
    /\ streamDone' = peer[12]
    /\ self' = 3 - self
    /\ peer' = closure

\* Two calls of gulpHtmlcs in one process, each with one reporter.
TwoOptions ==
    [failAfterError : {TRUE},
     debug : {FALSE},
     errorLevel : {e \in StreamErrorLevels : DOMAIN e = {}},
     configFile : {FALSE},
     reporters : {1}]

TwoInit ==
    \E first \in TwoOptions, second \in TwoOptions :
        /\ gulpHtmlcs(first)
        /\ self = 1
        /\ peer = closureOf(second)

\* The files piped into the running invocation: the two pipelines read
\* different files, so the paths of one are apart from the other's.
TwoFiles == {[f EXCEPT !.path = 10 * self + f.path] : f \in PlainFiles}

TwoNext ==
    \/ \E file \in TwoFiles : onFile(file, FALSE)
    \/ Aggregate
    \/ Switch

TwoSpec == TwoInit /\ [][TwoNext]_vars

(* ------------------------------ properties ---------------------------- *)

\* The positions of seq whose element satisfies P.
Where(seq, P(_)) == {i \in DOMAIN seq : P(seq[i])}

IsBuffered(file) == file.kind = "buffer"

\* The non-null, non-stream files the File Processor has seen.
BufferedSeen == Cardinality(Where(arrived, IsBuffered))

\* The invocations of reporter r.
CallsOf(r) == {i \in DOMAIN reporterCalls : reporterCalls[i].reporter = r}

\* The entries of the pending results list recorded for the file at `path`.
ResultsFor(path) ==
    {i \in DOMAIN lintPromiseList : lintPromiseList[i].results[1].source = path}

\* The emitted errors with a given message.
EmittedWith(message) == {i \in DOMAIN emitted : emitted[i].message = message}

\* The threshold errors on the error channel: every error that is neither
\* the streaming error, a config load error nor a wrapped reporter error.
ThresholdEmitted ==
    SelectSeq(emitted,
              LAMBDA e : e.message \notin {"Streaming is not supported",
                                           "config load failed",
                                           "reporter failed"})

\* The warnings of severity 'error' across all recorded results.
ErrorWarnings ==
    {<<i, j>> \in (DOMAIN lintPromiseList) \X (1 .. MaxRecords + 1) :
        /\ j \in DOMAIN lintPromiseList[i].results[1].warnings
        /\ lintPromiseList[i].results[1].warnings[j].severity = "error"}

\* The aggregator has left the streaming phase and called the reporters.
Reported == pc \notin {"stream", "flush"}

\* C1 (as stated): in one pipeline invocation every configured reporter is
\* invoked exactly once, only after the stream has ended and every file has
\* been processed, with an array as long as the number of non-null,
\* non-stream files seen. Stated on the finished invocation.
C1_EveryReporterOnce ==
    pc = "done" =>
        \A r \in reporters :
            /\ Cardinality(CallsOf(r)) = 1
            /\ \A i \in CallsOf(r) : Len(reporterCalls[i].results) = BufferedSeen

\* C1 (amended): no reporter is invoked before the stream has ended, none is
\* invoked twice, every invocation receives an array as long as the number of
\* non-null, non-stream files seen, and once the reporters have been called
\* each one has been invoked exactly once unless an earlier reporter of the
\* list threw on invocation.
C1_ReportersOnceUnlessThrow ==
    /\ pc = "stream" => reporterCalls = <<>>
    /\ \A r \in reporters : Cardinality(CallsOf(r)) <= 1
    /\ \A i \in DOMAIN reporterCalls : Len(reporterCalls[i].results) = BufferedSeen
    /\ Reported =>
           \A r \in reporters :
               \/ Cardinality(CallsOf(r)) = 1
               \/ \E q \in 1 .. r - 1 : reporterState[q] = "threw"

\* C1 witness: two reporters, both invoked after a stream of a null file and
\* a buffered file, each with an array of one result.
C1_Witness ==
    /\ pc = "done"
    /\ pluginOptions.reporters = 2
    /\ Len(reporterCalls) = 2
    /\ Len(arrived) = 2
    /\ BufferedSeen = 1
    /\ Len(reporterCalls[2].results) = 1

\* C2: at the deciding step with failAfterError true and N warnings of
\* severity 'error' across all files, no error is emitted when N = 0, exactly
\* one error "Failed with 1 error" when N = 1, and exactly one error
\* "Failed with N errors" when N > 1.
C2_ThresholdMessage ==
    LET N == Cardinality(ErrorWarnings)
        messages == [i \in DOMAIN ThresholdEmitted |-> ThresholdEmitted[i].message]
    IN  /\ pc # "done" => ThresholdEmitted = <<>>
        /\ (pc = "done" /\ chainError = 0 /\ pluginOptions.failAfterError) =>
               messages = IF N = 0 THEN <<>>
                          ELSE IF N = 1 THEN <<"Failed with 1 error">>
                          ELSE <<"Failed with " \o ToString(N) \o " errors">>

\* C2 witness: two files with one error-severity warning each, and the
\* threshold error "Failed with 2 errors" emitted.
C2_Witness ==
    /\ pc = "done"
    /\ pluginOptions.failAfterError
    /\ Len(lintPromiseList) = 2
    /\ \A i \in DOMAIN lintPromiseList : \E j \in 1 .. MaxRecords : <<i, j>> \in ErrorWarnings
    /\ EmittedWith("Failed with 2 errors") # {}

\* C3: once the upstream stream has ended, the stream completion callback is
\* eventually invoked, and it is never invoked more than once, whether the
\* reporters succeed, one fails, or a threshold error is emitted or not.
C3_CompletionOnce ==
    /\ (pc # "stream") ~> (streamDone = 1)
    /\ [](streamDone <= 1)

\* C3 witness: completion signalled on the failure path.
C3_Witness ==
    /\ pc = "done"
    /\ streamDone = 1
    /\ chainError # 0

\* C4: a file with null content is forwarded downstream unchanged and nothing
\* is appended to the pending results list for it.
C4_NullPassThrough ==
    \A i \in DOMAIN arrived :
        isNull(arrived[i]) =>
            /\ completions[i] = arrived[i]
            /\ Cardinality({k \in DOMAIN downstream : downstream[k] = arrived[i]}) = 1
            /\ ResultsFor(arrived[i].path) = {}
            /\ configLog[i] = "none"

\* C4 witness: a null file after a buffered file, forwarded.
C4_Witness ==
    /\ Len(arrived) = 2
    /\ IsBuffered(arrived[1])
    /\ isNull(arrived[2])
    /\ Len(downstream) = 2
    /\ Len(lintPromiseList) = 1

\* C5: a file with stream content makes the File Processor emit the error
\* "Streaming is not supported" (one per such file, without a stack), complete
\* the file with no file, so that it is not forwarded, and record no result.
C5_StreamRejected ==
    /\ \A i \in DOMAIN arrived :
           isStream(arrived[i]) =>
               /\ completions[i] = NoFile
               /\ \A k \in DOMAIN downstream : downstream[k] # arrived[i]
               /\ ResultsFor(arrived[i].path) = {}
    /\ Cardinality(EmittedWith("Streaming is not supported"))
           = Cardinality(Where(arrived, isStream))
    /\ \A i \in EmittedWith("Streaming is not supported") :
           emitted[i] = [plugin |-> "gulp-htmlcs",
                         message |-> "Streaming is not supported",
                         showStack |-> FALSE, from |-> 0]

\* C5 witness: a stream file between files, with its error emitted and only
\* the other file forwarded.
C5_Witness ==
    /\ Len(arrived) = 2
    /\ isStream(arrived[1])
    /\ IsBuffered(arrived[2])
    /\ Len(downstream) = 1
    /\ EmittedWith("Streaming is not supported") = {1}

\* C6: when configFile is set and reading or parsing it fails, the File
\* Processor emits one pipeline error for that file and still completes it
\* with the default lint function: the file is forwarded downstream and one
\* FileLintResult for it is appended to the pending results list.
C6_ConfigFailureContinues ==
    /\ \A i \in DOMAIN arrived :
           configLog[i] = "failed" =>
               /\ pluginOptions.configFile
               /\ completions[i] = arrived[i]
               /\ Cardinality({k \in DOMAIN downstream : downstream[k] = arrived[i]}) = 1
               /\ Cardinality(ResultsFor(arrived[i].path)) = 1
               /\ \A k \in ResultsFor(arrived[i].path) :
                      Len(lintPromiseList[k].results[1].warnings) = Len(arrived[i].issues)
    /\ Cardinality(EmittedWith("config load failed"))
           = Cardinality(Where(configLog, LAMBDA c : c = "failed"))

\* C6 witness: the config load fails for the first of two buffered files and
\* succeeds for the second; both are forwarded and both have a result.
C6_Witness ==
    /\ configLog = <<"failed", "ok">>
    /\ Len(downstream) = 2
    /\ Len(lintPromiseList) = 2
    /\ Len(lintPromiseList[1].results[1].warnings) = 1
    /\ Len(emitted) = 1

\* The reporters whose invocation threw or whose promise rejected.
FailedReporters == {r \in reporters : reporterState[r] \in {"threw", "rejected"}}

\* C7: if a reporter invocation fails (throws or rejects), the Completion
\* Aggregator goes to Failed: it emits exactly one pipeline error wrapping the
\* reporter's error, emits no threshold error even when failAfterError is
\* true and error-severity warnings exist, and signals stream completion.
C7_ReporterFailure ==
    /\ FailedReporters = {} => EmittedWith("reporter failed") = {}
    /\ FailedReporters # {} =>
           /\ pc \in {"tickFail", "done"}
           /\ chainError \in FailedReporters
           /\ ThresholdEmitted = <<>>
           /\ pc # "done" => EmittedWith("reporter failed") = {} /\ streamDone = 0
           /\ pc = "done" =>
                  /\ Cardinality(EmittedWith("reporter failed")) = 1
                  /\ \A i \in EmittedWith("reporter failed") :
                         /\ emitted[i].from = chainError
                         /\ i = Len(emitted)
                  /\ streamDone = 1

\* C7 witness: a reporter's promise rejects while failAfterError is true and
\* an error-severity warning exists; the run ends with the wrapped error.
C7_Witness ==
    /\ pc = "done"
    /\ pluginOptions.failAfterError
    /\ ErrorWarnings # {}
    /\ chainError # 0
    /\ reporterState[chainError] = "rejected"
    /\ streamDone = 1

\* C8: when failAfterError is false no threshold error is emitted in any
\* reachable state, whatever the number of error-severity warnings.
C8_NoThresholdWhenDisabled ==
    ~pluginOptions.failAfterError => ThresholdEmitted = <<>>

\* C8 witness: a finished, successful run with failAfterError false and two
\* error-severity warnings.
C8_Witness ==
    /\ pc = "done"
    /\ chainError = 0
    /\ ~pluginOptions.failAfterError
    /\ Cardinality(ErrorWarnings) = 2

\* The written file a recorded result was computed from.
FileOf(result) == CHOOSE f \in {arrived[i] : i \in DOMAIN arrived} : f.path = result.source

\* C9: for every list of IssueRecords the lint engine returns (the empty list
\* included), the normalized FileLintResult has errored = true if and only if
\* at least one record of the list has type ERROR.
C9_ErroredIffErrorRecord ==
    \A i \in DOMAIN lintPromiseList :
        LET result == lintPromiseList[i].results[1]
            records == FileOf(result).issues
        IN  result.errored
                <=> Cardinality({j \in DOMAIN records : records[j].type = "ERROR"}) >= 1

\* C9 witness: a list whose first record is an ERROR and whose last is a
\* WARNING, normalized with errored = true.
C9_Witness ==
    /\ Len(lintPromiseList) = 1
    /\ lintPromiseList[1].results[1].errored
    /\ Len(arrived[1].issues) = 2
    /\ arrived[1].issues[1].type = "ERROR"
    /\ arrived[1].issues[2].type = "WARNING"

\* The severity the claim gives a record: an entry's severity field when
\* `counts(entry)` says the entry has one, 'warning' for any other entry, and
\* the lower-cased native type when the rule has no entry.
ClaimedSeverity(record, counts(_)) ==
    LET errorLevel == pluginOptions.errorLevel
    IN  IF record.rule \in DOMAIN errorLevel
        THEN IF counts(errorLevel[record.rule])
             THEN errorLevel[record.rule]["severity"]
             ELSE "warning"
        ELSE IF record.type = "ERROR" THEN "error" ELSE "warning"

SeveritiesAre(counts(_)) ==
    \A i \in DOMAIN lintPromiseList :
        LET result == lintPromiseList[i].results[1]
            records == FileOf(result).issues
        IN  /\ Len(result.warnings) = Len(records)
            /\ \A j \in DOMAIN records :
                   result.warnings[j].severity = ClaimedSeverity(records[j], counts)

\* C10 (as stated): the severity of a normalized Warning is the override's
\* severity field when errorLevel has an entry for the record's rule with a
\* severity field, 'warning' when the entry has no severity field, and the
\* lower-cased native type when there is no entry.
C10_SeverityAsStated ==
    SeveritiesAre(LAMBDA entry : "severity" \in DOMAIN entry)

\* C10 (amended): the severity of a normalized Warning is the override's
\* severity field when errorLevel has an entry for the record's rule with a
\* non-empty severity field, 'warning' when the entry has no severity field
\* or an empty one, and the lower-cased native type when there is no entry.
C10_SeverityNonEmptyOverride ==
    SeveritiesAre(LAMBDA entry : "severity" \in DOMAIN entry /\ entry["severity"] # "")

\* C10 witness: errorLevel gives r1 the severity 'error' and r2 an entry
\* without severity; a WARNING record of r1 becomes 'error' and an ERROR
\* record of r2 becomes 'warning'.
C10_Witness ==
    /\ Len(lintPromiseList) = 1
    /\ DOMAIN pluginOptions.errorLevel = {"r1", "r2"}
    /\ "severity" \in DOMAIN pluginOptions.errorLevel["r1"]
    /\ pluginOptions.errorLevel["r1"]["severity"] = "error"
    /\ DOMAIN pluginOptions.errorLevel["r2"] = {}
    /\ arrived[1].issues = <<[rule |-> "r1", type |-> "WARNING", line |-> 1],
                             [rule |-> "r2", type |-> "ERROR", line |-> 1]>>
    /\ lintPromiseList[1].results[1].warnings[1].severity = "error"
    /\ lintPromiseList[1].results[1].warnings[2].severity = "warning"

\* The files written so far that are not stream-content files.
NotStreams == SelectSeq(arrived, LAMBDA f : ~isStream(f))

\* C11: the files forwarded downstream are the files written by upstream
\* with the stream-content files removed: same order, each exactly once,
\* each the unmodified file, whatever the lint engine returned for it and
\* whether or not its config load failed.
C11_ForwardedIsInputWithoutStreams == downstream = NotStreams

\* C11 witness: a stream file, then a buffered file with an ERROR record
\* whose config load failed; only the second is forwarded.
C11_Witness ==
    /\ Len(arrived) = 2
    /\ isStream(arrived[1])
    /\ IsBuffered(arrived[2]) /\ arrived[2].issues # <<>>
    /\ configLog[2] = "failed"
    /\ downstream = <<arrived[2]>>

\* The paths of the files piped into the invocation with closure c.
PathsPiped(c) == {c[2][i].path : i \in DOMAIN c[2]}

\* The sources of the results the reporters of that invocation were given.
SourcesGiven(c) ==
    UNION {{c[9][i].results[k].source : k \in DOMAIN c[9][i].results} :
              i \in DOMAIN c[9]}

\* The records of that invocation's own files that count as errors.
OwnErrorRecords(c) ==
    Cardinality({<<i, j>> \in (DOMAIN c[2]) \X (1 .. MaxRecords + 1) :
                    /\ IsBuffered(c[2][i])
                    /\ j \in DOMAIN c[2][i].issues
                    /\ severityOf(c[1].errorLevel, c[2][i].issues[j]) = "error"})

\* The threshold errors that invocation has emitted.
ThresholdOf(c) ==
    SelectSeq(c[7],
              LAMBDA e : e.message \notin {"Streaming is not supported",
                                           "config load failed",
                                           "reporter failed"})

\* C12: with two pipeline invocations whose handlers interleave in any
\* order, the reporters of each invocation are given only results whose
\* source is a file piped into that invocation, and the error count each
\* invocation decides on is the count over its own files.
C12_InvocationsApart ==
    \A c \in {closure, peer} :
        /\ SourcesGiven(c) \subseteq PathsPiped(c)
        /\ \A i \in DOMAIN ThresholdOf(c) :
               ThresholdOf(c)[i].message = errorMessage(OwnErrorRecords(c))
        /\ (c[8] = "done" /\ c[11] = 0 /\ c[1].failAfterError
               /\ OwnErrorRecords(c) > 0) => ThresholdOf(c) # <<>>

\* C12 witness: both invocations have finished, the running one over two
\* files with an ERROR each, the other over one such file; each reported
\* its own files and failed with its own count.
C12_Witness ==
    /\ self = 2
    /\ pc = "done" /\ peer[8] = "done"
    /\ SourcesGiven(closure) = {21, 22}
    /\ SourcesGiven(peer) = {11}
    /\ EmittedWith(errorMessage(2)) # {}
    /\ ThresholdOf(peer) # <<>> /\ ThresholdOf(peer)[1].message = errorMessage(1)

Decided ==
    \/ streamDone > 0 /\ chainError = 0
    \/ \E i \in DOMAIN emitted :
           emitted[i].message \notin {"Streaming is not supported",
                                      "config load failed",
                                      "reporter failed"}

\* C14: the threshold error is never emitted and the success completion is
\* never signalled while a reporter that was invoked has not finished: once
\* the aggregator has decided, the promise of every invoked reporter has
\* resolved.
C14_DecidesAfterReporters ==
    Decided =>
        \A i \in DOMAIN reporterCalls :
            reporterState[reporterCalls[i].reporter] = "resolved"

\* C14 witness: two reporters were invoked, both have resolved, and the
\* deciding tick then emitted the threshold error and completed the stream.
C14_Witness ==
    /\ pc = "done" /\ chainError = 0 /\ streamDone = 1
    /\ Len(reporterCalls) = 2
    /\ \A r \in reporters : reporterState[r] = "resolved"
    /\ Len(ThresholdEmitted) = 1

\* The non-null, non-stream files, in the order they arrived.
BufferedFiles == SelectSeq(arrived, IsBuffered)

\* The warnings of one result follow the records the lint engine returned
\* for the file: same length, the j-th warning made of the j-th record.
WarningsFollow(warnings, issues) ==
    /\ Len(warnings) = Len(issues)
    /\ \A j \in DOMAIN issues :
           /\ warnings[j].line = issues[j].line
           /\ warnings[j].rule = issues[j].rule
           /\ issues[j].rule \notin DOMAIN pluginOptions.errorLevel
                  => warnings[j].severity = toLowerCase(issues[j].type)

\* C15: the array every reporter is given lists the per-file results in
\* file-arrival order, the i-th element having the path of the i-th
\* non-null, non-stream file as its source, and the warnings of each result
\* are in the order of the lint engine's records for that file.
C15_ReportedInArrivalOrder ==
    LET files == BufferedFiles
    IN  \A c \in DOMAIN reporterCalls :
            LET results == reporterCalls[c].results
            IN  /\ Len(results) = Len(files)
                /\ \A i \in DOMAIN results :
                       /\ results[i].source = files[i].path
                       /\ WarningsFollow(results[i].warnings, files[i].issues)

\* C15 witness: a reporter is given the results of two buffered files, the
\* second with an ERROR record followed by a WARNING record.
C15_Witness ==
    /\ reporterCalls # <<>>
    /\ DOMAIN pluginOptions.errorLevel = {}
    /\ LET results == reporterCalls[1].results
       IN  /\ Len(results) = 2
           /\ results[1].source = 1 /\ results[2].source = 2
           /\ Len(results[2].warnings) = 2
           /\ results[2].warnings[1].severity = "error"
           /\ results[2].warnings[2].severity = "warning"

\* One step of the pending results list: a step that writes a non-null,
\* non-stream file appends exactly one entry, the one of that file; every
\* other step leaves the list as it is.
PendingListStep ==
    IF Len(arrived') = Len(arrived) + 1 /\ IsBuffered(arrived'[Len(arrived')])
    THEN /\ Len(lintPromiseList') = Len(lintPromiseList) + 1
         /\ SubSeq(lintPromiseList', 1, Len(lintPromiseList)) = lintPromiseList
         /\ lintPromiseList'[Len(lintPromiseList')].results[1].source
                = arrived'[Len(arrived')].path
    ELSE lintPromiseList' = lintPromiseList

\* C16: in every reachable state the pending results list is as long as
\* the number of non-null, non-stream files processed so far, and it is
\* append-only: each such file appends exactly one entry, null and stream
\* files append none, no entry is removed, replaced or moved, and nothing
\* is appended once the aggregator has started.
C16_PendingListAppendOnly ==
    /\ [](Len(lintPromiseList) = BufferedSeen)
    /\ [][PendingListStep]_vars
    /\ [][pc # "stream" => lintPromiseList' = lintPromiseList]_vars

\* C16 witness: two buffered files each appended their entry, in order, and
\* the list is still that after the aggregator has run to its end.
C16_Witness ==
    /\ pc = "done"
    /\ Len(BufferedFiles) = 2
    /\ Len(lintPromiseList) = 2
    /\ lintPromiseList[1].results[1].source = 1
    /\ lintPromiseList[2].results[1].source = 2

\* C17: an error emitted on the stream's error channel has its showStack
\* flag set only when the debug option is true; with debug false no
\* emitted error of any kind (streaming, config load, reporter failure,
\* threshold) has it set.
C17_StackOnlyInDebug ==
    \A i \in DOMAIN emitted : emitted[i].showStack => pluginOptions.debug

\* C17 witness: with debug false a streaming error, a config load error and
\* a wrapped reporter failure have been emitted, none showing its stack.
C17_Witness ==
    /\ ~pluginOptions.debug
    /\ EmittedWith("Streaming is not supported") # {}
    /\ EmittedWith("config load failed") # {}
    /\ EmittedWith("reporter failed") # {}
    /\ \A i \in DOMAIN emitted : ~emitted[i].showStack

\* configFile is set and no read of it has succeeded: a file that cannot be
\* read or parsed.
BadConfigFile ==
    /\ pluginOptions.configFile
    /\ \A i \in DOMAIN configLog : configLog[i] # "ok"

\* C18: configFile is read again for every non-null, non-stream file and a
\* failure is not remembered: with a configFile that cannot be read or
\* parsed, N such files have emitted exactly N config load errors, one per
\* file, and all of them before anything the stream-end aggregation emits.
C18_ConfigLoadedPerFile ==
    /\ pluginOptions.configFile =>
           \A i \in DOMAIN arrived :
               IsBuffered(arrived[i]) => configLog[i] \in {"ok", "failed"}
    /\ BadConfigFile =>
           Cardinality(EmittedWith("config load failed")) = BufferedSeen
    /\ \A i \in EmittedWith("config load failed") :
           \A k \in 1 .. i - 1 :
               emitted[k].message \in {"config load failed",
                                       "Streaming is not supported"}
    /\ pc = "stream" =>
           \A i \in DOMAIN emitted :
               emitted[i].message \in {"config load failed",
                                       "Streaming is not supported"}

\* C18 witness: two buffered files, the config load failed for both, two
\* config load errors are out and the aggregation has only just started.
C18_Witness ==
    /\ pc = "flush"
    /\ BadConfigFile
    /\ BufferedSeen = 2
    /\ configLog = <<"failed", "failed">>
    /\ Cardinality(EmittedWith("config load failed")) = 2

\* C19: the errored flag of a FileLintResult does not depend on errorLevel:
\* normalizing the same records of the same file under any other errorLevel
\* mapping gives the same errored value as the run's own mapping gave. (So
\* errored and the count of error-severity warnings can disagree, as the
\* witness shows in both directions.)
C19_ErroredIgnoresErrorLevel ==
    \A i \in DOMAIN lintPromiseList :
        LET result == lintPromiseList[i].results[1]
            records == FileOf(result).issues
        IN  \A other \in ErrorLevels :
                formatResult(other, records, result.source).results[1].errored
                    = result.errored

\* C19 witness: under one errorLevel the first result has errored = true and
\* adds nothing to the error count, the second has errored = false and adds
\* one, and the deciding tick failed the stream with that count of 1.
C19_Witness ==
    /\ pc = "done"
    /\ Len(lintPromiseList) = 2
    /\ lintPromiseList[1].results[1].errored
    /\ errorCountOf(<<lintPromiseList[1]>>) = 0
    /\ ~lintPromiseList[2].results[1].errored
    /\ errorCountOf(<<lintPromiseList[2]>>) = 1
    /\ EmittedWith(errorMessage(1)) # {}

====
